---------------------------- MODULE Spec2Model ----------------------------
(***************************************************************************)
(* Enrolment Dates Field Checker (Enrolment_Dates_Field_Checker.py).       *)
(*                                                                         *)
(* A Python str is modelled as a sequence of one-character strings, a row  *)
(* (a Python list of str) as a sequence of such strings.  Python indices   *)
(* are 0-based and are kept 0-based in the operators below; the slicing    *)
(* operators follow Python's rules for negative and out-of-range indices.  *)
(* Row objects live in `heap` and lists hold references (heap addresses),  *)
(* so that two lists sharing a row object share its mutations.             *)
(***************************************************************************)
EXTENDS Integers, Sequences, FiniteSets, TLC

VARIABLES
    pc,                  \* position of the program
    stages,              \* stages of the current process_enrolment_dates call, in order
    try_again,           \* main: try_again
    repeat,              \* main: repeat
    lastio,              \* outcome of the most recent open() of a data file
    exc,                 \* exception that ended the program, "none" otherwise
    heap,                \* row objects, by address
    read_data,           \* load_data(.., 'ed'): read_data, a list of row references
    ld_warnings,         \* load_data: its local warnings list
    i,                   \* check_ed: loop index
    errors,              \* check_ed: fatal error list
    ce_warnings,         \* check_ed: its local warnings list
    raw_ed_data, ed_data, raw_cf_data, cf_data,
    start_change, end_change,
    warnings,            \* process_enrolment_dates: warnings list
    warnings_to_process, \* process_enrolment_dates: flag given to process_warning_log
    to_add, warnings_to_add,
    written,             \* files written by the current process_enrolment_dates call
    arg, ret, upc        \* a single call of one function: input, result, position

vars == << pc, stages, try_again, repeat, lastio, exc, heap, read_data,
           ld_warnings, i, errors,
           ce_warnings, raw_ed_data, ed_data, raw_cf_data, cf_data,
           start_change, end_change, warnings, warnings_to_process, to_add,
           warnings_to_add, written, arg, ret, upc >>

wfvars == << pc, stages, try_again, repeat, lastio, exc, heap, read_data,
           ld_warnings, i, errors,
             ce_warnings, raw_ed_data, ed_data, raw_cf_data, cf_data,
             start_change, end_change, warnings, warnings_to_process, to_add,
             warnings_to_add, written >>

unitvars == << arg, ret, upc >>

-----------------------------------------------------------------------------
(* Python str and list primitives *)

Min(a, b) == IF a < b THEN a ELSE b
Max(a, b) == IF a > b THEN a ELSE b

\* a slice bound as Python normalises it against a length n
Norm(k, n) == IF k < 0 THEN Max(k + n, 0) ELSE Min(k, n)

\* s[a:b]
Slice(s, a, b) ==
    LET lo == Norm(a, Len(s))
        hi == Norm(b, Len(s))
    IN  IF lo >= hi THEN << >> ELSE SubSeq(s, lo + 1, hi)

\* s[a:]
SliceFrom(s, a) == Slice(s, a, Len(s))

\* s[:b]
SliceTo(s, b) == Slice(s, 0, b)

\* s.find(sub): lowest 0-based index where sub occurs, -1 when it does not
Find(s, sub) ==
    LET hits == { k \in 0 .. (Len(s) - Len(sub)) :
                    SubSeq(s, k + 1, k + Len(sub)) = sub }
    IN  IF hits = {} THEN -1
        ELSE CHOOSE k \in hits : \A h \in hits : k <= h

\* sub in s
Contains(s, sub) == Find(s, sub) # -1

Digits == { "0", "1", "2", "3", "4", "5", "6", "7", "8", "9" }

\* re.search('\d', s): m.start() of the first digit, -1 for m = None
SearchDigit(s) ==
    LET hits == { k \in 0 .. (Len(s) - 1) : s[k + 1] \in Digits }
    IN  IF hits = {} THEN -1
        ELSE CHOOSE k \in hits : \A h \in hits : k <= h

\* row[p] for a 0-based column position p
Field(row, p) == row[p + 1]

\* all strings over alphabet A of length at most n
Strs(A, n) == UNION { [1 .. k -> A] : k \in 0 .. n }

-----------------------------------------------------------------------------
(* String constants of the program *)

MARKER == << "F", "i", "t", "N", "Z" >>
StartLabel ==
    << "C", "o", "u", "r", "s", "e", " ", "S", "t", "a", "r", "t", " ",
       "D", "a", "t", "e" >>
EndLabel ==
    << "C", "o", "u", "r", "s", "e", " ", "E", "n", "d", " ",
       "D", "a", "t", "e" >>
Skip == << "S", "k", "i", "p" >>

-----------------------------------------------------------------------------
(* extract_date *)

extract_date(date) ==
    LET date_part == SliceTo(date, 10)
        day == Slice(date_part, 8, 10)
        month == Slice(date_part, 5, 7)
        year == Slice(date_part, 0, 4)
    IN  day \o << "/" >> \o month \o << "/" >> \o year

-----------------------------------------------------------------------------
(* extract_course_date: [exc, val]; exc = "AttributeError" when m is None *)

DateOfRemaining_NoYearLimit(remaining, date_start) ==
    LET date_remaining == SliceFrom(remaining, date_start)
        first_slash == Find(date_remaining, << "/" >>)
        day == SliceTo(date_remaining, first_slash)
        date_remaining_month == SliceFrom(date_remaining, first_slash + 1)
        second_slash == Find(date_remaining_month, << "/" >>)
        month == SliceTo(date_remaining_month, second_slash)
        year == SliceFrom(date_remaining_month, second_slash + 1)
    IN  day \o << "/" >> \o month \o << "/" >> \o year

DateOfRemaining(remaining, date_start) ==
    LET date_remaining == SliceFrom(remaining, date_start)
        first_slash == Find(date_remaining, << "/" >>)
        day == SliceTo(date_remaining, first_slash)
        date_remaining_month == SliceFrom(date_remaining, first_slash + 1)
        second_slash == Find(date_remaining_month, << "/" >>)
        month == SliceTo(date_remaining_month, second_slash)
        year == Slice(date_remaining_month, second_slash + 1, second_slash + 5)
    IN  day \o << "/" >> \o month \o << "/" >> \o year

extract_course_date(student, data_pos, date_text) ==
    LET text == Field(student, data_pos)
        date_text_idx == Find(text, date_text)
        remaining == SliceFrom(text, date_text_idx)
        date_start == SearchDigit(remaining)
    IN  IF date_start = -1
        THEN [exc |-> "AttributeError", val |-> << >>]
        ELSE [exc |-> "none", val |-> DateOfRemaining(remaining, date_start)]

-----------------------------------------------------------------------------
(* extract_student_id *)

extract_student_id(student, data_pos) ==
    LET start == Find(Field(student, data_pos), MARKER)
        finish == start + 9
    IN  Slice(Field(student, data_pos), start, finish)

-----------------------------------------------------------------------------
(* extract_course_code, get_courses *)

\* re.search('.+\(.+-.+-.+\)', course): some '(' with a character before it,
\* then a non-empty part, '-', a non-empty part, '-', a non-empty part, ')'
CourseCodeSearch_NoLead(course) ==
    \E a \in 1 .. Len(course) :
        /\ course[a] = "("
        /\ \E p \in (a + 2) .. Len(course) :
            /\ course[p] = "-"
            /\ \E q \in (p + 2) .. Len(course) :
                /\ course[q] = "-"
                /\ \E b \in (q + 2) .. Len(course) : course[b] = ")"

CourseCodeSearch(course) ==
    \E a \in 2 .. Len(course) :
        /\ course[a] = "("
        /\ \E p \in (a + 2) .. Len(course) :
            /\ course[p] = "-"
            /\ \E q \in (p + 2) .. Len(course) :
                /\ course[q] = "-"
                /\ \E b \in (q + 2) .. Len(course) : course[b] = ")"

extract_course_code(course) ==
    IF CourseCodeSearch(course)
    THEN LET start == Find(course, << "(" >>)
         IN  Slice(course, start + 1, -1)
    ELSE Skip

\* the loop of get_courses from student number n on; students holds row
\* references into mem
RECURSIVE GetCoursesFrom(_, _, _, _)
GetCoursesFrom(students, n, course_pos, mem) ==
    IF n > Len(students) THEN << >>
    ELSE (IF extract_course_code(Field(mem[students[n]], course_pos)) # Skip
          THEN << students[n] >> ELSE << >>)
         \o GetCoursesFrom(students, n + 1, course_pos, mem)

get_courses(students, course_pos, mem) ==
    GetCoursesFrom(students, 1, course_pos, mem)

-----------------------------------------------------------------------------
(* compare: enrolment and custom_field are lists of rows (values) *)

RECURSIVE CompareInner_NoBreakOnEqual(_, _, _, _, _, _, _)
CompareInner_NoBreakOnEqual(student, custom_field, k, e_pos, c_pos, es_pos, cs_pos) ==
    IF k > Len(custom_field) THEN << >>
    ELSE IF /\ Field(student, es_pos) = Field(custom_field[k], cs_pos)
            /\ Field(student, e_pos) # Field(custom_field[k], c_pos)
         THEN << << Field(student, es_pos), Field(student, e_pos) >> >>
         ELSE CompareInner_NoBreakOnEqual(student, custom_field, k + 1,
                                          e_pos, c_pos, es_pos, cs_pos)

CompareInner_NoIdTest(student, custom_field, k, e_pos, c_pos, es_pos, cs_pos) ==
    IF k > Len(custom_field) THEN << >>
    ELSE IF Field(student, e_pos) # Field(custom_field[k], c_pos)
         THEN << << Field(student, es_pos), Field(student, e_pos) >> >>
         ELSE << >>

\* the inner loop from c_student number k on: the changes it appends
RECURSIVE CompareInner(_, _, _, _, _, _, _)
CompareInner(student, custom_field, k, e_pos, c_pos, es_pos, cs_pos) ==
    IF k > Len(custom_field) THEN << >>
    ELSE IF Field(student, es_pos) = Field(custom_field[k], cs_pos)
         THEN IF Field(student, e_pos) # Field(custom_field[k], c_pos)
              THEN << << Field(student, es_pos), Field(student, e_pos) >> >>
              ELSE << >>
         ELSE CompareInner(student, custom_field, k + 1,
                           e_pos, c_pos, es_pos, cs_pos)

\* the outer loop from student number n on
RECURSIVE CompareOuter(_, _, _, _, _, _, _)
CompareOuter(enrolment, custom_field, n, e_pos, c_pos, es_pos, cs_pos) ==
    IF n > Len(enrolment) THEN << >>
    ELSE CompareInner(enrolment[n], custom_field, 1, e_pos, c_pos, es_pos, cs_pos)
         \o CompareOuter(enrolment, custom_field, n + 1,
                         e_pos, c_pos, es_pos, cs_pos)

compare(enrolment, custom_field, e_pos, c_pos, es_pos, cs_pos) ==
    CompareOuter(enrolment, custom_field, 1, e_pos, c_pos, es_pos, cs_pos)

-----------------------------------------------------------------------------
(* The workflow's state while no workflow runs, and the single call's     *)
(* state while the workflow runs.                                         *)

WfIdle ==
    /\ pc = "idle"
    /\ stages = << >>
    /\ try_again = FALSE
    /\ repeat = TRUE
    /\ lastio = "none"
    /\ exc = "none"
    /\ heap = << >>
    /\ read_data = << >>
    /\ ld_warnings = << >>
    /\ i = 0
    /\ errors = << >>
    /\ ce_warnings = << >>
    /\ raw_ed_data = << >>
    /\ ed_data = << >>
    /\ raw_cf_data = << >>
    /\ cf_data = << >>
    /\ start_change = << >>
    /\ end_change = << >>
    /\ warnings = << >>
    /\ warnings_to_process = FALSE
    /\ to_add = FALSE
    /\ warnings_to_add = << >>
    /\ written = << >>

UnitIdle ==
    /\ upc = "idle"
    /\ arg = << >>
    /\ ret = << >>

-----------------------------------------------------------------------------
(* A single call of compare: primary rows [id, name, date], secondary rows  *)
(* [id, date]                                                              *)

MaxListLen == 3

CmpIds == { << "a" >>, << "b" >> }
CmpDates == { << "1" >>, << "2" >> }
CmpPrimary == { << id, << "n" >>, d >> : id \in CmpIds, d \in CmpDates }
CmpSecondary == { << id, d >> : id \in CmpIds, d \in CmpDates }
CmpLists(rows, max) == UNION { [1 .. n -> rows] : n \in 0 .. max }

InitCompare ==
    /\ WfIdle
    /\ upc = "call"
    /\ ret = << >>
    /\ arg \in [enrolment : CmpLists(CmpPrimary, MaxListLen),
                custom_field : CmpLists(CmpSecondary, MaxListLen)]

CallCompare ==
    /\ upc = "call"
    /\ ret' = compare(arg.enrolment, arg.custom_field, 2, 1, 0, 0)
    /\ upc' = "returned"
    /\ UNCHANGED << arg, wfvars >>

NextCompare == CallCompare

SpecCompare == InitCompare /\ [][NextCompare]_vars

-----------------------------------------------------------------------------
(* A single call of extract_course_date on a row whose position 3 is text *)

MaxTextLen == 3

DateAlphabet == { "1", "/", "a" }
SmallTexts(n) == Strs(DateAlphabet, n)
Pres == { << >>, << "a" >>, << "1", "/", "1" >> }
Tails == { << >>, << "1" >>, << "/", "a" >> }
Labels == { StartLabel, EndLabel }

\* texts with at most one label, followed by any short text
TextsPlain(n) ==
    { pre \o lab \o post :
        pre \in Pres, lab \in Labels \cup { << >> }, post \in SmallTexts(n) }

\* texts in which a label occurs twice
TextsTwice(n) ==
    { pre \o lab \o mid \o lab \o post :
        pre \in Pres, lab \in Labels, mid \in SmallTexts(n), post \in Tails }

\* texts in which a label is followed by day/month/year and a tail
TextsDated(tails) ==
    { pre \o lab \o gap \o day \o << "/" >> \o month \o << "/" >> \o year \o tail :
        pre \in Pres, lab \in Labels,
        gap \in { << >>, << ":", " " >>, << "a", "/" >> },
        day \in { << "1" >>, << "1", "2" >>, << "1", "a" >> },
        month \in { << >>, << "1" >>, << "1", "2" >> },
        year \in [1 .. 4 -> DateAlphabet],
        tail \in tails }

DateTexts(n) == TextsPlain(n) \cup TextsTwice(n) \cup TextsDated(Tails)

InitDate ==
    /\ WfIdle
    /\ upc = "call"
    /\ ret = << >>
    /\ arg \in [text : DateTexts(MaxTextLen), date_text : Labels]

CallExtractCourseDate ==
    /\ upc = "call"
    /\ LET r == extract_course_date(<< << >>, << >>, << >>, arg.text, << >> >>,
                                    3, arg.date_text)
       IN  /\ ret' = r.val
           /\ upc' = IF r.exc = "none" THEN "returned" ELSE "raised"
    /\ UNCHANGED << arg, wfvars >>

NextDate == CallExtractCourseDate

SpecDate == InitDate /\ [][NextDate]_vars

-----------------------------------------------------------------------------
(* A single call of get_courses on rows whose position 2 is the course *)

MaxCourseLen == 8

CourseAlphabet == { "a", "(", ")", "-" }
CourseTexts(n) == Strs(CourseAlphabet, n)
CourseSamples ==
    { << "a", "(", "a", "-", "a", "-", "a", ")" >>,
      << "-", "(", "-", "-", "-", "-", "-", ")", "a" >>,
      << "(", "a", "-", "a", "-", "a", ")" >>,
      << "a" >> }

CourseRow(c) == << << "1" >>, << "n" >>, c >>
CourseLists(max) ==
    UNION { [1 .. n -> { CourseRow(c) : c \in CourseSamples }] : n \in 2 .. max }

InitCourse ==
    /\ WfIdle
    /\ upc = "call"
    /\ ret = << >>
    /\ \/ \E c \in CourseTexts(MaxCourseLen) :
            arg = [mem |-> << CourseRow(c) >>, students |-> << 1 >>]
       \/ \E rows \in CourseLists(MaxListLen) :
            arg = [mem |-> rows, students |-> [k \in 1 .. Len(rows) |-> k]]

CallGetCourses ==
    /\ upc = "call"
    /\ ret' = get_courses(arg.students, 2, arg.mem)
    /\ upc' = "returned"
    /\ UNCHANGED << arg, wfvars >>

NextCourse == CallGetCourses

SpecCourse == InitCourse /\ [][NextCourse]_vars

-----------------------------------------------------------------------------
(* List stages of the pipeline.  A list is a sequence of row references  *)
(* into mem; a stage that mutates row objects returns the new mem.         *)

\* clean_date: student[date_pos] = extract_date(student[date_pos]) on the
\* row objects of the input list, from student number n on
RECURSIVE CleanDateFrom(_, _, _, _)
CleanDateFrom(students, n, date_pos, mem) ==
    IF n > Len(students) THEN mem
    ELSE CleanDateFrom(students, n + 1, date_pos,
            [mem EXCEPT ![students[n]] =
                [@ EXCEPT ![date_pos + 1] = extract_date(@)]])

clean_date(students, date_pos, mem) == CleanDateFrom(students, 1, date_pos, mem)

\* extract_students
RECURSIVE ExtractStudentsFrom(_, _, _, _)
ExtractStudentsFrom(students, n, data_pos, mem) ==
    IF n > Len(students) THEN << >>
    ELSE (IF Contains(Field(mem[students[n]], data_pos), MARKER)
          THEN << students[n] >> ELSE << >>)
         \o ExtractStudentsFrom(students, n + 1, data_pos, mem)

extract_students(students, data_pos, mem) ==
    ExtractStudentsFrom(students, 1, data_pos, mem)

\* add_student_id: student.append(extract_student_id(student, data_pos)) on
\* the row objects of the (shallow-copied) list
RECURSIVE AddStudentIdFrom(_, _, _, _)
AddStudentIdFrom(students, n, data_pos, mem) ==
    IF n > Len(students) THEN mem
    ELSE AddStudentIdFrom(students, n + 1, data_pos,
            [mem EXCEPT ![students[n]] =
                Append(@, extract_student_id(@, data_pos))])

add_student_id(students, data_pos, mem) ==
    AddStudentIdFrom(students, 1, data_pos, mem)

\* add_start_date / add_end_date: student.append(extract_course_date(..));
\* [exc, mem]: the loop stops at the first row whose extraction raises, the
\* rows before it already extended
RECURSIVE AddDateFrom(_, _, _, _, _)
AddDateFrom(students, n, data_pos, text, mem) ==
    IF n > Len(students) THEN [exc |-> "none", mem |-> mem]
    ELSE LET r == extract_course_date(mem[students[n]], data_pos, text)
         IN  IF r.exc # "none" THEN [exc |-> r.exc, mem |-> mem]
             ELSE AddDateFrom(students, n + 1, data_pos, text,
                     [mem EXCEPT ![students[n]] = Append(@, r.val)])

add_start_date(students, data_pos, mem) ==
    AddDateFrom(students, 1, data_pos, StartLabel, mem)

add_end_date(students, data_pos, mem) ==
    AddDateFrom(students, 1, data_pos, EndLabel, mem)

\* strip_cf_data: [exc, rows]: the new rows [student[5], student[6],
\* student[7]]; IndexError on a row with fewer than 8 columns
StripRow_ShiftedColumns(student) ==
    << Field(student, 4), Field(student, 5), Field(student, 6) >>

StripRow(student) ==
    << Field(student, 5), Field(student, 6), Field(student, 7) >>

RECURSIVE StripFrom(_, _, _)
StripFrom(data, n, mem) ==
    IF n > Len(data) THEN [exc |-> "none", rows |-> << >>]
    ELSE IF Len(mem[data[n]]) < 8 THEN [exc |-> "IndexError", rows |-> << >>]
    ELSE LET rest == StripFrom(data, n + 1, mem)
         IN  [exc |-> rest.exc,
              rows |-> << StripRow(mem[data[n]]) >> \o rest.rows]

strip_cf_data(data, mem) == StripFrom(data, 1, mem)

\* the rows behind a list of references
Deref(list, mem) == [n \in 1 .. Len(list) |-> mem[list[n]]]

-----------------------------------------------------------------------------
(* Messages and files *)

Msg(kind, id) == [kind |-> kind, id |-> id]

\* check_ed's additions for one row: [warnings, errors]
CheckEdErrors_FirstOnly(student) ==
    IF Field(student, 2) = << >>
    THEN << Msg("Course is missing", Field(student, 0)) >>
    ELSE IF Field(student, 3) = << >>
    THEN << Msg("Enrolment Date is missing", Field(student, 0)) >>
    ELSE IF Field(student, 4) = << >>
    THEN << Msg("Expiry Date is missing", Field(student, 0)) >>
    ELSE << >>

CheckEdErrors(student) ==
    (IF Field(student, 2) = << >>
     THEN << Msg("Course is missing", Field(student, 0)) >> ELSE << >>)
    \o (IF Field(student, 3) = << >>
        THEN << Msg("Enrolment Date is missing", Field(student, 0)) >> ELSE << >>)
    \o (IF Field(student, 4) = << >>
        THEN << Msg("Expiry Date is missing", Field(student, 0)) >> ELSE << >>)

CheckEdWarnings(student) ==
    IF Field(student, 1) = << >>
    THEN << Msg("Student Name is missing", Field(student, 0)) >> ELSE << >>

\* save_data_upload: one line per item, its elements each followed by ','
\* and the final character removed
RECURSIVE JoinElements(_, _)
JoinElements(item, n) ==
    IF n > Len(item) THEN << >>
    ELSE item[n] \o << "," >> \o JoinElements(item, n + 1)

LineToSave_KeepsFinalComma(item) == JoinElements(item, 1)

LineToSave(item) == SliceTo(JoinElements(item, 1), -1)

SaveLines(i_data, headings) ==
    << headings >> \o [n \in 1 .. Len(i_data) |-> LineToSave(i_data[n])]

StartHeadings == << "S", "t", "u", "d", "e", "n", "t", " ", "I", "D", ",", "S", "t", "a", "r", "t", " ", "D", "a", "t", "e" >>
EndHeadings == << "S", "t", "u", "d", "e", "n", "t", " ", "I", "D", ",", "E", "n", "d", " ", "D", "a", "t", "e" >>

\* save_data_upload: save_data, the lines of the items from number n on, each
\* followed by a newline
RECURSIVE SaveDataFrom(_, _)
SaveDataFrom(i_data, n) ==
    IF n > Len(i_data) THEN << >>
    ELSE LineToSave(i_data[n]) \o << "\n" >> \o SaveDataFrom(i_data, n + 1)

\* save_data_upload: the text of the file after the two calls of f.write
SaveText(i_data, headings) ==
    (headings \o << "\n" >>) \o SaveDataFrom(i_data, 1)

-----------------------------------------------------------------------------
(* A single call of save_data_upload: i_data is a list of Change Records    *)
(* [student id, date]                                                      *)

MaxChanges == 2

ChangeFields == { << >>, << "a" >>, << "1", "/", "2" >> }
ChangeRecords == { << id, d >> : id \in ChangeFields, d \in ChangeFields }
ChangeLists(max) == UNION { [1 .. n -> ChangeRecords] : n \in 0 .. max }

InitSave ==
    /\ WfIdle
    /\ upc = "call"
    /\ ret = << >>
    /\ arg \in [i_data : ChangeLists(MaxChanges),
                headings : { StartHeadings, EndHeadings }]

\* the file opens: the headings and the lines are written
CallSaveDataUpload ==
    /\ upc = "call"
    /\ ret' = SaveText(arg.i_data, arg.headings)
    /\ upc' = "returned"
    /\ UNCHANGED << arg, wfvars >>

\* open() raises IOError: the statement + '.txt' raises TypeError and no
\* file is written
CallSaveDataUploadOpenFail ==
    /\ upc = "call"
    /\ ret' = << >>
    /\ upc' = "raised"
    /\ UNCHANGED << arg, wfvars >>

NextSave ==
    \/ CallSaveDataUpload
    \/ CallSaveDataUploadOpenFail

SpecSave == InitSave /\ [][NextSave]_vars

-----------------------------------------------------------------------------
(* Input files of the workflow *)

MaxEdRows == 2
MaxCfRows == 2

Id1 == MARKER \o << "0", "0", "0", "1" >>
Id2 == MARKER \o << "0", "0", "0", "2" >>
Iso1 == << "2", "0", "2", "1", "-", "0", "4", "-", "0", "3", " ", "0", "9", ":", "0", "0" >>
Iso2 == << "2", "0", "2", "1", "-", "0", "4", "-", "0", "5" >>
Dmy1 == << "0", "3", "/", "0", "4", "/", "2", "0", "2", "1" >>
Dmy2 == << "0", "5", "/", "0", "4", "/", "2", "0", "2", "1" >>
CourseWithCode == << "I", " ", "(", "A", "-", "1", "-", "X", ")" >>
CourseNoCode == << "I", "n", "t", "r", "o" >>
Name == << "N" >>

\* rows of the Enrolment Dates file:
\* Student ID, Student, Course, Enrolment Date, Expiry Date
EdRowSet ==
    { << Id1, Name, CourseWithCode, Iso1, Iso2 >>,
      << Id1, << >>, CourseWithCode, Iso2, Iso1 >>,
      << Id2, Name, CourseNoCode, Iso1, Iso2 >>,
      << Id2, Name, << >>, Iso1, << >> >>,
      << Id1, << >>, CourseNoCode, << >>, Iso2 >>,
      << << >>, Name, CourseWithCode, Iso1, Iso2 >> }

Sp == << " " >>
Colon == << ":", " " >>

CfText(id, d1, d2) ==
    id \o Sp \o StartLabel \o Colon \o d1 \o Sp \o EndLabel \o Colon \o d2

\* position-3 texts of the Custom Fields file
CfTextSet ==
    { CfText(Id1, Dmy1, Dmy2),
      CfText(Id2, Dmy1, Dmy1),
      << "n", "o", "n", "e" >>,
      Id2 \o Sp \o StartLabel \o Colon \o Dmy1 \o << "." >>,
      MARKER \o << "1", "2" >> }

X == << "x" >>

\* rows of the Custom Fields file: five columns, and rows of four and of six
\* (the six-column row has another student's id in its last column)
CfRowSet ==
    { << X, X, X, t, X >> : t \in CfTextSet }
    \cup { << X, X, X, CfText(Id2, Dmy1, Dmy1) >>,
           << X, X, X, CfText(Id2, Dmy1, Dmy2), X, Id1 >> }

EdFiles(max) == UNION { [1 .. n -> EdRowSet] : n \in 0 .. max }
CfFiles(max) == UNION { [1 .. n -> CfRowSet] : n \in 0 .. max }

\* load_data: the rows of a file whose first column is not empty
RECURSIVE LoadRows(_, _)
LoadRows(file, n) ==
    IF n > Len(file) THEN << >>
    ELSE (IF Field(file[n], 0) # << >> THEN << file[n] >> ELSE << >>)
         \o LoadRows(file, n + 1)

\* references to k rows appended to a heap of size base
NewRefs(base, k) == [n \in 1 .. k |-> base + n]

-----------------------------------------------------------------------------
(* The program: main, process_enrolment_dates and what they call *)

Init ==
    /\ pc = "menu"
    /\ stages = << >>
    /\ try_again = FALSE
    /\ repeat = TRUE
    /\ lastio = "none"
    /\ exc = "none"
    /\ heap = << >>
    /\ read_data = << >>
    /\ ld_warnings = << >>
    /\ i = 0
    /\ errors = << >>
    /\ ce_warnings = << >>
    /\ raw_ed_data = << >>
    /\ ed_data = << >>
    /\ raw_cf_data = << >>
    /\ cf_data = << >>
    /\ start_change = << >>
    /\ end_change = << >>
    /\ warnings = << >>
    /\ warnings_to_process = FALSE
    /\ to_add = FALSE
    /\ warnings_to_add = << >>
    /\ written = << >>
    /\ UnitIdle

\* the locals of process_enrolment_dates and of its callees
locals == << stages, lastio, heap, read_data, ld_warnings, i, errors,
             ce_warnings, raw_ed_data, ed_data, raw_cf_data, cf_data,
             start_change, end_change, warnings, warnings_to_process, to_add,
             warnings_to_add, written >>

\* a fresh call of process_enrolment_dates, before it loads anything
FreshCall ==
    /\ stages' = << >>
    /\ lastio' = "none"
    /\ heap' = << >>
    /\ read_data' = << >>
    /\ ld_warnings' = << >>
    /\ i' = 0
    /\ errors' = << >>
    /\ ce_warnings' = << >>
    /\ raw_ed_data' = << >>
    /\ ed_data' = << >>
    /\ raw_cf_data' = << >>
    /\ cf_data' = << >>
    /\ start_change' = << >>
    /\ end_change' = << >>
    /\ to_add' = FALSE
    /\ warnings_to_add' = << >>
    /\ written' = << >>

\* main: the input is no number, int(input(..)) raises ValueError
MainValueError ==
    /\ pc = "menu"
    /\ try_again' = TRUE
    /\ pc' = "menu"
    /\ UNCHANGED << repeat, exc, locals, unitvars >>

\* main: the input is a number below 1 or above 2
MainOutOfRange ==
    /\ pc = "menu"
    /\ try_again' = TRUE
    /\ pc' = "menu"
    /\ UNCHANGED << repeat, exc, locals, unitvars >>

\* main: selection 1; process_enrolment_dates up to the first load_data
MainProcess ==
    /\ pc = "menu"
    /\ try_again' = FALSE
    /\ FreshCall
    /\ warnings' = << Msg("Processing Enrolment Dates Warnings", << >>) >>
    /\ warnings_to_process' = FALSE
    /\ pc' = "load_ed"
    /\ UNCHANGED << repeat, exc, unitvars >>

\* main: selection 2, sys.exit()
MainExit ==
    /\ pc = "menu"
    /\ try_again' = FALSE
    /\ exc' = "SystemExit"
    /\ pc' = "exit"
    /\ UNCHANGED << repeat, locals, unitvars >>

\* load_data: open() raises IOError, a new file name is asked for
LoadDataOpenFail ==
    /\ pc \in { "load_ed", "load_cf" }
    /\ lastio' = "IOError"
    /\ pc' = pc
    /\ UNCHANGED << stages, try_again, repeat, exc, heap, read_data,
                    ld_warnings, i, errors, ce_warnings, raw_ed_data, ed_data,
                    raw_cf_data, cf_data, start_change, end_change, warnings,
                    warnings_to_process, to_add, warnings_to_add, written,
                    unitvars >>

\* load_data(ed_file_name, 'ed') up to its call of check_ed
LoadEd ==
    /\ pc = "load_ed"
    /\ \E file \in EdFiles(MaxEdRows) :
         LET rows == LoadRows(file, 1)
         IN  /\ heap' = heap \o rows
             /\ read_data' = NewRefs(Len(heap), Len(rows))
    /\ lastio' = "ok"
    /\ ld_warnings' = << >>
    /\ i' = 0
    /\ errors' = << >>
    /\ ce_warnings' =
         << Msg("Enrolment Dates (Learning Platform) Report Warnings", << >>) >>
    /\ stages' = Append(stages, "load_ed")
    /\ pc' = "check_ed"
    /\ UNCHANGED << try_again, repeat, exc, raw_ed_data, ed_data,
                    raw_cf_data, cf_data, start_change, end_change, warnings,
                    warnings_to_process, to_add, warnings_to_add, written,
                    unitvars >>

\* check_ed: one turn of the while loop
CheckEdRow ==
    /\ pc = "check_ed"
    /\ i < Len(read_data)
    /\ ce_warnings' = ce_warnings \o CheckEdWarnings(heap[read_data[i + 1]])
    /\ errors' = errors \o CheckEdErrors(heap[read_data[i + 1]])
    /\ i' = i + 1
    /\ UNCHANGED << pc, stages, try_again, repeat, lastio, exc, heap,
                    read_data, ld_warnings, raw_ed_data, ed_data, raw_cf_data,
                    cf_data, start_change, end_change, warnings,
                    warnings_to_process, to_add, warnings_to_add, written,
                    unitvars >>

\* check_ed: after the loop, errors were found: process_error_log is called
CheckEdAbort ==
    /\ pc = "check_ed"
    /\ ~(i < Len(read_data))
    /\ Len(errors) > 0
    /\ stages' = Append(stages, "check_ed")
    /\ pc' = "process_error_log"
    /\ UNCHANGED << try_again, repeat, lastio, exc, heap, read_data,
                    ld_warnings, i, errors, ce_warnings, raw_ed_data, ed_data,
                    raw_cf_data, cf_data, start_change, end_change, warnings,
                    warnings_to_process, to_add, warnings_to_add, written,
                    unitvars >>

\* check_ed: after the loop, no errors: check_ed returns (its result is not
\* assigned by load_data), and load_data returns read_data and its own
\* warnings to process_enrolment_dates
CheckEdReturn ==
    /\ pc = "check_ed"
    /\ ~(i < Len(read_data))
    /\ ~(Len(errors) > 0)
    /\ raw_ed_data' = read_data
    /\ to_add' = (Len(ld_warnings) > 0)
    /\ warnings_to_add' = ld_warnings
    /\ stages' = Append(stages, "check_ed")
    /\ pc' = "get_courses"
    /\ UNCHANGED << try_again, repeat, lastio, exc, heap, read_data,
                    ld_warnings, i, errors, ce_warnings, ed_data, raw_cf_data,
                    cf_data, start_change, end_change, warnings,
                    warnings_to_process, written, unitvars >>

\* process_error_log: the error log is saved (save_error_log prints and goes
\* on when the file cannot be opened), then SystemExit is raised
ProcessErrorLog_Returns ==
    /\ pc = "process_error_log"
    /\ \E saved \in BOOLEAN :
         written' = IF saved
                    THEN Append(written,
                           [name |-> "Error_log",
                            lines |-> << Msg("Enrolment Dates (Learning Platform) Report", << >>) >>
                                      \o errors])
                    ELSE written
    /\ raw_ed_data' = read_data
    /\ to_add' = (Len(ld_warnings) > 0)
    /\ warnings_to_add' = ld_warnings
    /\ pc' = "get_courses"
    /\ UNCHANGED << stages, try_again, repeat, lastio, exc, heap,
                    read_data, ld_warnings, i, errors, ce_warnings, ed_data,
                    raw_cf_data, cf_data, start_change, end_change, warnings,
                    warnings_to_process, unitvars >>

ProcessErrorLog ==
    /\ pc = "process_error_log"
    /\ \E saved \in BOOLEAN :
         written' = IF saved
                    THEN Append(written,
                           [name |-> "Error_log",
                            lines |-> << Msg("Enrolment Dates (Learning Platform) Report", << >>) >>
                                      \o errors])
                    ELSE written
    /\ exc' = "SystemExit"
    /\ pc' = "exit"
    /\ UNCHANGED << stages, try_again, repeat, lastio, heap,
                    read_data, ld_warnings, i, errors, ce_warnings,
                    raw_ed_data, ed_data, raw_cf_data, cf_data, start_change,
                    end_change, warnings, warnings_to_process, to_add,
                    warnings_to_add, unitvars >>

\* get_courses(raw_ed_data, 2)
GetCourses ==
    /\ pc = "get_courses"
    /\ ed_data' = get_courses(raw_ed_data, 2, heap)
    /\ stages' = Append(stages, "get_courses")
    /\ pc' = "clean_date_3"
    /\ UNCHANGED << try_again, repeat, lastio, exc, heap, read_data,
                    ld_warnings, i, errors, ce_warnings, raw_ed_data,
                    raw_cf_data, cf_data, start_change, end_change, warnings,
                    warnings_to_process, to_add, warnings_to_add, written,
                    unitvars >>

\* ed_data = clean_date(ed_data, 3)
CleanDate3 ==
    /\ pc = "clean_date_3"
    /\ heap' = clean_date(ed_data, 3, heap)
    /\ ed_data' = ed_data
    /\ stages' = Append(stages, "clean_date_3")
    /\ pc' = "clean_date_4"
    /\ UNCHANGED << try_again, repeat, lastio, exc, read_data,
                    ld_warnings, i, errors, ce_warnings, raw_ed_data,
                    raw_cf_data, cf_data, start_change, end_change, warnings,
                    warnings_to_process, to_add, warnings_to_add, written,
                    unitvars >>

\* ed_data = clean_date(ed_data, 4)
CleanDate4 ==
    /\ pc = "clean_date_4"
    /\ heap' = clean_date(ed_data, 4, heap)
    /\ ed_data' = ed_data
    /\ stages' = Append(stages, "clean_date_4")
    /\ pc' = "load_cf"
    /\ UNCHANGED << try_again, repeat, lastio, exc, read_data,
                    ld_warnings, i, errors, ce_warnings, raw_ed_data,
                    raw_cf_data, cf_data, start_change, end_change, warnings,
                    warnings_to_process, to_add, warnings_to_add, written,
                    unitvars >>

\* load_data(cf_file_name, 'cf'): no check of the rows; returns the rows and
\* its own warnings
LoadCf ==
    /\ pc = "load_cf"
    /\ \E file \in CfFiles(MaxCfRows) :
         LET rows == LoadRows(file, 1)
         IN  /\ heap' = heap \o rows
             /\ raw_cf_data' = NewRefs(Len(heap), Len(rows))
    /\ lastio' = "ok"
    /\ ld_warnings' = << >>
    /\ to_add' = FALSE
    /\ warnings_to_add' = << >>
    /\ stages' = Append(stages, "load_cf")
    /\ pc' = "extract_students"
    /\ UNCHANGED << try_again, repeat, exc, read_data, i, errors,
                    ce_warnings, raw_ed_data, ed_data, cf_data, start_change,
                    end_change, warnings, warnings_to_process, written, unitvars >>

\* cf_data = extract_students(raw_cf_data, 3)
ExtractStudents ==
    /\ pc = "extract_students"
    /\ cf_data' = extract_students(raw_cf_data, 3, heap)
    /\ stages' = Append(stages, "extract_students")
    /\ pc' = "add_student_id"
    /\ UNCHANGED << try_again, repeat, lastio, exc, heap, read_data,
                    ld_warnings, i, errors, ce_warnings, raw_ed_data, ed_data,
                    raw_cf_data, start_change, end_change, warnings,
                    warnings_to_process, to_add, warnings_to_add, written,
                    unitvars >>

\* cf_data = add_student_id(cf_data, 3)
AddStudentId ==
    /\ pc = "add_student_id"
    /\ heap' = add_student_id(cf_data, 3, heap)
    /\ cf_data' = cf_data
    /\ stages' = Append(stages, "add_student_id")
    /\ pc' = "add_start_date"
    /\ UNCHANGED << try_again, repeat, lastio, exc, read_data,
                    ld_warnings, i, errors, ce_warnings, raw_ed_data, ed_data,
                    raw_cf_data, start_change, end_change, warnings,
                    warnings_to_process, to_add, warnings_to_add, written,
                    unitvars >>

\* cf_data = add_start_date(cf_data, 3); an exception of extract_course_date
\* is caught nowhere
AddStartDate ==
    /\ pc = "add_start_date"
    /\ LET r == add_start_date(cf_data, 3, heap)
       IN  /\ heap' = r.mem
           /\ exc' = r.exc
           /\ pc' = IF r.exc = "none" THEN "add_end_date" ELSE "crashed"
    /\ cf_data' = cf_data
    /\ stages' = Append(stages, "add_start_date")
    /\ UNCHANGED << try_again, repeat, lastio, read_data, ld_warnings,
                    i, errors, ce_warnings, raw_ed_data, ed_data, raw_cf_data,
                    start_change, end_change, warnings, warnings_to_process,
                    to_add, warnings_to_add, written, unitvars >>

\* cf_data = add_end_date(cf_data, 3)
AddEndDate ==
    /\ pc = "add_end_date"
    /\ LET r == add_end_date(cf_data, 3, heap)
       IN  /\ heap' = r.mem
           /\ exc' = r.exc
           /\ pc' = IF r.exc = "none" THEN "strip_cf_data" ELSE "crashed"
    /\ cf_data' = cf_data
    /\ stages' = Append(stages, "add_end_date")
    /\ UNCHANGED << try_again, repeat, lastio, read_data, ld_warnings,
                    i, errors, ce_warnings, raw_ed_data, ed_data, raw_cf_data,
                    start_change, end_change, warnings, warnings_to_process,
                    to_add, warnings_to_add, written, unitvars >>

\* cf_data = strip_cf_data(cf_data): new row objects
StripCfData ==
    /\ pc = "strip_cf_data"
    /\ LET r == strip_cf_data(cf_data, heap)
       IN  /\ heap' = heap \o r.rows
           /\ cf_data' = IF r.exc = "none"
                         THEN NewRefs(Len(heap), Len(r.rows)) ELSE cf_data
           /\ exc' = r.exc
           /\ pc' = IF r.exc = "none" THEN "compare_start" ELSE "crashed"
    /\ stages' = Append(stages, "strip_cf_data")
    /\ UNCHANGED << try_again, repeat, lastio, read_data, ld_warnings,
                    i, errors, ce_warnings, raw_ed_data, ed_data, raw_cf_data,
                    start_change, end_change, warnings, warnings_to_process,
                    to_add, warnings_to_add, written, unitvars >>

CompareStart_SkipsEndDiff ==
    /\ pc = "compare_start"
    /\ start_change' = compare(Deref(ed_data, heap), Deref(cf_data, heap), 3, 1, 0, 0)
    /\ stages' = Append(stages, "compare_start")
    /\ pc' = "save_start"
    /\ UNCHANGED << try_again, repeat, lastio, exc, heap, read_data,
                    ld_warnings, i, errors, ce_warnings, raw_ed_data, ed_data,
                    raw_cf_data, cf_data, end_change, warnings,
                    warnings_to_process, to_add, warnings_to_add, written,
                    unitvars >>

\* start_change = compare(ed_data, cf_data, 3, 1)
CompareStart ==
    /\ pc = "compare_start"
    /\ start_change' = compare(Deref(ed_data, heap), Deref(cf_data, heap), 3, 1, 0, 0)
    /\ stages' = Append(stages, "compare_start")
    /\ pc' = "compare_end"
    /\ UNCHANGED << try_again, repeat, lastio, exc, heap, read_data,
                    ld_warnings, i, errors, ce_warnings, raw_ed_data, ed_data,
                    raw_cf_data, cf_data, end_change, warnings,
                    warnings_to_process, to_add, warnings_to_add, written,
                    unitvars >>

\* end_change = compare(ed_data, cf_data, 4, 2)
CompareEnd ==
    /\ pc = "compare_end"
    /\ end_change' = compare(Deref(ed_data, heap), Deref(cf_data, heap), 4, 2, 0, 0)
    /\ stages' = Append(stages, "compare_end")
    /\ pc' = "save_start"
    /\ UNCHANGED << try_again, repeat, lastio, exc, heap, read_data,
                    ld_warnings, i, errors, ce_warnings, raw_ed_data, ed_data,
                    raw_cf_data, cf_data, start_change, warnings,
                    warnings_to_process, to_add, warnings_to_add, written,
                    unitvars >>

\* save_data_upload(start_change, headings, 'Start_Changes_'): the file opens
\* and is written
SaveStart ==
    /\ pc = "save_start"
    /\ lastio' = "ok"
    /\ written' = Append(written, [name |-> "Start_Changes",
                                   lines |-> SaveLines(start_change, StartHeadings)])
    /\ stages' = Append(stages, "save_start")
    /\ pc' = "save_end"
    /\ UNCHANGED << try_again, repeat, exc, heap, read_data,
                    ld_warnings, i, errors, ce_warnings, raw_ed_data, ed_data,
                    raw_cf_data, cf_data, start_change, end_change, warnings,
                    warnings_to_process, to_add, warnings_to_add, unitvars >>

\* save_data_upload(end_change, headings, 'End_Changes_'): the file opens and
\* is written
SaveEnd ==
    /\ pc = "save_end"
    /\ lastio' = "ok"
    /\ written' = Append(written, [name |-> "End_Changes",
                                   lines |-> SaveLines(end_change, EndHeadings)])
    /\ stages' = Append(stages, "save_end")
    /\ pc' = "process_warning_log"
    /\ UNCHANGED << try_again, repeat, exc, heap, read_data,
                    ld_warnings, i, errors, ce_warnings, raw_ed_data, ed_data,
                    raw_cf_data, cf_data, start_change, end_change, warnings,
                    warnings_to_process, to_add, warnings_to_add, unitvars >>

\* save_data_upload: open() raises IOError; after the new file name is read,
\* the statement + '.txt' applies unary plus to a str: TypeError
SaveDataUploadOpenFail ==
    /\ pc \in { "save_start", "save_end" }
    /\ lastio' = "IOError"
    /\ exc' = "TypeError"
    /\ pc' = "crashed"
    /\ UNCHANGED << stages, try_again, repeat, heap, read_data,
                    ld_warnings, i, errors, ce_warnings, raw_ed_data, ed_data,
                    raw_cf_data, cf_data, start_change, end_change, warnings,
                    warnings_to_process, to_add, warnings_to_add, written,
                    unitvars >>

\* process_warning_log(warnings, warnings_to_process): returns at once unless
\* required; otherwise the warnings are saved (save_warning_log prints and
\* goes on when the file cannot be opened)
ProcessWarningLog ==
    /\ pc = "process_warning_log"
    /\ IF ~warnings_to_process
       THEN written' = written
       ELSE \E saved \in BOOLEAN :
              written' = IF saved
                         THEN Append(written, [name |-> "Warning_log",
                                               lines |-> warnings])
                         ELSE written
    /\ stages' = Append(stages, "process_warning_log")
    /\ pc' = "check_repeat"
    /\ UNCHANGED << try_again, repeat, lastio, exc, heap, read_data,
                    ld_warnings, i, errors, ce_warnings, raw_ed_data, ed_data,
                    raw_cf_data, cf_data, start_change, end_change, warnings,
                    warnings_to_process, to_add, warnings_to_add, unitvars >>

\* check_repeat: an answer other than y and n is asked for again
CheckRepeatInvalid ==
    /\ pc = "check_repeat"
    /\ pc' = "check_repeat"
    /\ UNCHANGED << repeat, try_again, exc, locals, unitvars >>

\* check_repeat returns True: back to the menu; the locals of the finished
\* call are gone
CheckRepeatYes ==
    /\ pc = "check_repeat"
    /\ repeat' = TRUE
    /\ FreshCall
    /\ warnings' = << >>
    /\ warnings_to_process' = FALSE
    /\ pc' = "menu"
    /\ UNCHANGED << try_again, exc, unitvars >>

\* check_repeat returns False: main prints its goodbye and ends
CheckRepeatNo ==
    /\ pc = "check_repeat"
    /\ repeat' = FALSE
    /\ pc' = "exit"
    /\ UNCHANGED << try_again, exc, locals, unitvars >>

Next ==
    \/ MainValueError
    \/ MainOutOfRange
    \/ MainProcess
    \/ MainExit
    \/ LoadDataOpenFail
    \/ LoadEd
    \/ CheckEdRow
    \/ CheckEdAbort
    \/ CheckEdReturn
    \/ ProcessErrorLog
    \/ GetCourses
    \/ CleanDate3
    \/ CleanDate4
    \/ LoadCf
    \/ ExtractStudents
    \/ AddStudentId
    \/ AddStartDate
    \/ AddEndDate
    \/ StripCfData
    \/ CompareStart
    \/ CompareEnd
    \/ SaveStart
    \/ SaveEnd
    \/ SaveDataUploadOpenFail
    \/ ProcessWarningLog
    \/ CheckRepeatInvalid
    \/ CheckRepeatYes
    \/ CheckRepeatNo

Spec == Init /\ [][Next]_vars

-----------------------------------------------------------------------------
(* Properties of compare *)

\* the secondary rows whose id is the primary row's id
C1_Matches(student, custom_field) ==
    { k \in 1 .. Len(custom_field) : custom_field[k][1] = student[1] }

\* the first such row exists and its date differs from the primary row's
C1_Emits(student, custom_field) ==
    /\ C1_Matches(student, custom_field) # {}
    /\ LET first == CHOOSE k \in C1_Matches(student, custom_field) :
                      \A h \in C1_Matches(student, custom_field) : k <= h
       IN  custom_field[first][2] # student[3]

\* C1: compare emits, in the order of the primary rows, one Change Record
\* [primary id, primary date] for exactly the primary rows whose FIRST
\* secondary row with the same id has a different date; a primary row whose
\* first match has an equal date, or that has no match, emits nothing, even
\* when a later secondary row with that id has a different date.
C1_FirstMatchDecides ==
    upc = "returned" =>
        LET sel == SelectSeq(arg.enrolment,
                             LAMBDA st : C1_Emits(st, arg.custom_field))
        IN  /\ Len(ret) = Len(sel)
            /\ \A n \in 1 .. Len(sel) : ret[n] = << sel[n][1], sel[n][3] >>

\* the first primary row's first match has an equal date and a later row of
\* the same id a different one: nothing is emitted for it, while the second
\* primary row is emitted
C1_Witness ==
    /\ upc = "returned"
    /\ Len(arg.enrolment) = 2
    /\ \E k, l \in 1 .. Len(arg.custom_field) :
         /\ k < l
         /\ k \in C1_Matches(arg.enrolment[1], arg.custom_field)
         /\ \A h \in 1 .. (k - 1) :
              h \notin C1_Matches(arg.enrolment[1], arg.custom_field)
         /\ arg.custom_field[k][2] = arg.enrolment[1][3]
         /\ l \in C1_Matches(arg.enrolment[1], arg.custom_field)
         /\ arg.custom_field[l][2] # arg.enrolment[1][3]
    /\ ret = << << arg.enrolment[2][1], arg.enrolment[2][3] >> >>

-----------------------------------------------------------------------------
(* Properties of extract_course_date *)

\* the label occurs in the text at (1-based) position k
C7_LabelOccursAt(k) ==
    /\ k + Len(arg.date_text) - 1 <= Len(arg.text)
    /\ SubSeq(arg.text, k, k + Len(arg.date_text) - 1) = arg.date_text

\* the label does not occur in the text
C7_LabelAbsent == \A k \in 1 .. Len(arg.text) : ~C7_LabelOccursAt(k)

\* the label occurs and no digit occurs at or after its first occurrence
C7_NoDigitAfterLabel ==
    \E k \in 1 .. Len(arg.text) :
        /\ C7_LabelOccursAt(k)
        /\ \A h \in 1 .. (k - 1) : ~C7_LabelOccursAt(h)
        /\ \A h \in k .. Len(arg.text) : arg.text[h] \notin Digits

\* C7: extract_course_date never returns a value when the label is absent
\* or no digit follows it: the call ends in an exception.
C7_AbsentLabelOrDigitRaises ==
    (upc # "call" /\ (C7_LabelAbsent \/ C7_NoDigitAfterLabel)) => upc = "raised"

\* the part of C7 about a label that is present: with no digit at or after
\* it the call raises
C7_NoDigitRaises ==
    (upc # "call" /\ C7_NoDigitAfterLabel) => upc = "raised"

\* position k is where the label first occurs
C8_LabelAt(k) ==
    /\ C7_LabelOccursAt(k)
    /\ \A h \in 1 .. (k - 1) : ~C7_LabelOccursAt(h)

\* p is the first digit after the label at k
C8_FirstDigitAt(k, p) ==
    /\ arg.text[p] \in Digits
    /\ \A h \in (k + Len(arg.date_text)) .. (p - 1) : arg.text[h] \notin Digits

\* at is the first '/' at or after position from
C8_NextSlash(from, at) ==
    /\ arg.text[at] = "/"
    /\ \A h \in from .. (at - 1) : arg.text[h] # "/"

\* C8: when the text contains the label and the first digit after the
\* label's first occurrence starts day/month/YYYY (day and month each ended
\* by '/', then four characters), the call returns exactly that stretch of
\* the text, whatever precedes the label or follows the year.
C8_ReturnsTheDate ==
    upc # "call" =>
        \A k \in 1 .. Len(arg.text) : C8_LabelAt(k) =>
          \A p \in (k + Len(arg.date_text)) .. Len(arg.text) : C8_FirstDigitAt(k, p) =>
            \A a \in (p + 1) .. Len(arg.text) : C8_NextSlash(p, a) =>
              \A b \in (a + 1) .. (Len(arg.text) - 4) : C8_NextSlash(a + 1, b) =>
                /\ upc = "returned"
                /\ ret = SubSeq(arg.text, p, b + 4)

\* a dated text with something before the label and something after the year
C8_Witness ==
    /\ upc = "returned"
    /\ \E k \in 2 .. Len(arg.text) :
         /\ C8_LabelAt(k)
         /\ \E p \in (k + Len(arg.date_text)) .. Len(arg.text) :
              /\ C8_FirstDigitAt(k, p)
              /\ \E a \in (p + 1) .. Len(arg.text) :
                   /\ C8_NextSlash(p, a)
                   /\ \E b \in (a + 1) .. (Len(arg.text) - 5) :
                        /\ C8_NextSlash(a + 1, b)
                        /\ ret = SubSeq(arg.text, p, b + 4)

-----------------------------------------------------------------------------
(* Properties of the course-code filter *)

\* the course text of the row behind reference r
C9_Course(r) == arg.mem[r][3]

\* the text contains '(' ... ')' enclosing at least two hyphens
C9_ParenHyphens(c) ==
    \E a, b \in 1 .. Len(c) :
        /\ a < b
        /\ c[a] = "(" /\ c[b] = ")"
        /\ Cardinality({ h \in (a + 1) .. (b - 1) : c[h] = "-" }) >= 2

\* between the first '(' that is not the first character and the last ')',
\* the first hyphen having a character before it and the last hyphen having
\* a character after it are separated by at least one character
C9_LedParenCode(c) ==
    LET opens == { a \in 2 .. Len(c) : c[a] = "(" }
        closes == { b \in 1 .. Len(c) : c[b] = ")" }
    IN  /\ opens # {} /\ closes # {}
        /\ LET a == CHOOSE x \in opens : \A y \in opens : x <= y
               b == CHOOSE x \in closes : \A y \in closes : x >= y
               hy == { h \in (a + 2) .. (b - 2) : c[h] = "-" }
           IN  \E p, q \in hy : q >= p + 2

-----------------------------------------------------------------------------
(* Properties of the workflow *)

InStages(st) == \E n \in 1 .. Len(stages) : stages[n] = st
HasFile(name) == \E n \in 1 .. Len(written) : written[n].name = name

\* the loaded Report A row number n
EdRow(n) == heap[read_data[n]]

\* some loaded Report A row has an empty Course, Enrolment Date or Expiry Date
C2_FatalRow ==
    \E n \in 1 .. Len(read_data) :
        \/ EdRow(n)[3] = << >>
        \/ EdRow(n)[4] = << >>
        \/ EdRow(n)[5] = << >>

\* C2: in a run in which a loaded Report A row has an empty Course,
\* Enrolment Date or Expiry Date, the program is still scanning, or in
\* process_error_log, or has ended by SystemExit; no compare call has been
\* made and neither the Start_Changes nor the End_Changes file is written.
C2_FatalErrorStopsBeforeCompare ==
    C2_FatalRow =>
        /\ pc \in { "check_ed", "process_error_log", "exit" }
        /\ pc = "exit" => exc = "SystemExit"
        /\ ~InStages("compare_start") /\ ~InStages("compare_end")
        /\ ~HasFile("Start_Changes") /\ ~HasFile("End_Changes")

\* the run of a file whose second row is the fatal one has ended, the error
\* log saved
C2_Witness ==
    /\ pc = "exit"
    /\ Len(read_data) = 2
    /\ EdRow(1)[3] # << >> /\ EdRow(1)[4] # << >> /\ EdRow(1)[5] # << >>
    /\ EdRow(2)[3] = << >>
    /\ HasFile("Error_log")

\* the missing required fields of the loaded Report A rows: (row, column)
C3_Missing ==
    { m \in (1 .. Len(read_data)) \X { 3, 4, 5 } : EdRow(m[1])[m[2]] = << >> }

\* the loaded Report A rows without a Student Name
C3_NoName == { n \in 1 .. Len(read_data) : EdRow(n)[2] = << >> }

C3_Kind(column) ==
    CASE column = 3 -> "Course is missing"
      [] column = 4 -> "Enrolment Date is missing"
      [] column = 5 -> "Expiry Date is missing"

\* check_ed ended the load: process_error_log was entered
C3_Aborted ==
    pc = "process_error_log" \/ (pc = "exit" /\ exc = "SystemExit")

\* C3: when check_ed decides, it has scanned every loaded row; the load is
\* aborted if and only if some row has an empty Course, Enrolment Date or
\* Expiry Date; the error list holds one entry per missing required field
\* of all rows; a row without a Student Name adds one warning and nothing to
\* the error list.
C3_ValidatorScansAllRows ==
    InStages("check_ed") =>
        /\ i = Len(read_data)
        /\ C3_Aborted <=> (C3_Missing # {})
        /\ Len(errors) = Cardinality(C3_Missing)
        /\ \A m \in C3_Missing :
             \E k \in 1 .. Len(errors) :
                 errors[k] = Msg(C3_Kind(m[2]), EdRow(m[1])[1])
        /\ Len(ce_warnings) = 1 + Cardinality(C3_NoName)

\* the first row has two missing required fields and the second row, whose
\* name is missing too, a third: all three are in the error list
C3_Witness ==
    /\ InStages("check_ed")
    /\ C3_Aborted
    /\ Len(read_data) = 2
    /\ EdRow(1)[3] = << >> /\ EdRow(1)[5] = << >>
    /\ EdRow(2)[2] = << >> /\ EdRow(2)[4] = << >>
    /\ Len(errors) = 3
    /\ Len(ce_warnings) = 2

\* C4: in every run that completes and in which a loaded Report A row has an
\* empty Student Name, process_warning_log is invoked with required = True
\* and a Warning_log file containing the row's warning is written.
C4_WarningsPersisted ==
    (pc = "check_repeat" /\ C3_NoName # {}) =>
        /\ warnings_to_process
        /\ \E k \in 1 .. Len(written) :
             /\ written[k].name = "Warning_log"
             /\ \A n \in C3_NoName :
                  \E j \in 1 .. Len(written[k].lines) :
                      written[k].lines[j] =
                          Msg("Student Name is missing", EdRow(n)[1])

\* the positions at which a pipeline stage is about to run
C5_Stages ==
    { "get_courses", "clean_date_3", "clean_date_4", "extract_students",
      "add_student_id", "add_start_date", "add_end_date", "strip_cf_data",
      "compare_start", "compare_end" }

\* a step of a pipeline stage keeps every existing row object as it is
C5_RowsKept ==
    pc \in C5_Stages => (\A r \in 1 .. Len(heap) : heap'[r] = heap[r])

\* C5: every pipeline stage leaves every existing row object unchanged (same
\* fields, same length), so the rows held by an earlier stage's result are
\* after the stage what they were before it.
C5_StagesLeaveRowsUnchanged == [][C5_RowsKept]_vars

\* C6: an operator input error (a menu input that is no number or is out of
\* range, a data file that cannot be opened in load_data, an output file
\* that cannot be opened in save_data_upload) leads back to the same prompt;
\* no exception escapes and the program does not terminate.
C6_InputErrorsRetried ==
    [][(\/ pc = "menu" /\ try_again'
        \/ /\ pc \in { "load_ed", "load_cf", "save_start", "save_end" }
           /\ lastio' = "IOError")
       => (pc' = pc /\ exc' = "none")]_vars

\* the parts of C6 about main and load_data
C6_MenuAndLoadRetried ==
    [][(\/ pc = "menu" /\ try_again'
        \/ pc \in { "load_ed", "load_cf" } /\ lastio' = "IOError")
       => (pc' = pc /\ exc' = "none")]_vars

\* the marker occurs in the text at (1-based) position k
C10_MarkerAt(text, k) ==
    /\ k + 4 <= Len(text)
    /\ SubSeq(text, k, k + 4) = MARKER

\* the Report B rows retained by the marker filter, in file order
C10_Retained ==
    SelectSeq(raw_cf_data,
              LAMBDA r : \E k \in 1 .. Len(heap[r][4]) : C10_MarkerAt(heap[r][4], k))

\* the marker at its first occurrence and the characters after it, four of
\* them unless the text ends before
C10_Id(text) ==
    LET k == CHOOSE x \in 1 .. Len(text) :
                 /\ C10_MarkerAt(text, x)
                 /\ \A y \in 1 .. (x - 1) : ~C10_MarkerAt(text, y)
    IN  SubSeq(text, k, Min(k + 8, Len(text)))

\* what the projection of the retained row behind reference r should be
C10_Expected(r) ==
    << C10_Id(heap[r][4]),
       extract_course_date(heap[r], 3, StartLabel).val,
       extract_course_date(heap[r], 3, EndLabel).val >>

\* strip_cf_data has returned
C10_Projected == InStages("strip_cf_data") /\ pc # "crashed"

-----------------------------------------------------------------------------
(* C11 *)

\* the Change Records of the files the current call has written
C11_WrittenChanges ==
    (IF HasFile("Start_Changes") THEN start_change ELSE << >>)
    \o (IF HasFile("End_Changes") THEN end_change ELSE << >>)

\* the id fields of the loaded Report A rows
C11_ReportAIds == { heap[raw_ed_data[n]][1] : n \in 1 .. Len(raw_ed_data) }

\* the derived ids of the Report B records (the rows the marker filter kept)
C11_DerivedIds == { C10_Id(heap[C10_Retained[n]][4]) : n \in 1 .. Len(C10_Retained) }

C11_BeginsWithMarker(id) ==
    Len(id) >= Len(MARKER) /\ SubSeq(id, 1, Len(MARKER)) = MARKER

-----------------------------------------------------------------------------
(* C12 *)

\* the stages the workflow is made of, in the order claimed: load report A,
\* course-code filter, normalize both date columns, load report B, marker
\* filter, derive id/start/end, project, diff start dates, diff end dates,
\* write the Start_Changes file, write the End_Changes file
C12_Order ==
    << "load_ed", "get_courses", "clean_date_3", "clean_date_4", "load_cf",
       "extract_students", "add_student_id", "add_start_date", "add_end_date",
       "strip_cf_data", "compare_start", "compare_end", "save_start",
       "save_end" >>

C12_Named == { C12_Order[n] : n \in 1 .. Len(C12_Order) }

\* the stages of the current call that the claim names, as they occurred
C12_Occurred == SelectSeq(stages, LAMBDA st : st \in C12_Named)

\* the current call of process_enrolment_dates has run to its last statement
C12_Completed ==
    Len(stages) > 0 /\ stages[Len(stages)] = "process_warning_log"

C12_FileNames == [n \in 1 .. Len(written) |-> written[n].name]

\* C12: in every run of process_enrolment_dates that completes the stages
\* occur in the claimed order, none skipped or repeated; no change file is
\* written before both diffs are computed; and both files are written, the
\* Start_Changes file first, even when a diff is empty.
C12_StagesInOrder ==
    /\ C12_Completed =>
          /\ C12_Occurred = C12_Order
          /\ C12_FileNames = << "Start_Changes", "End_Changes" >>
    /\ (HasFile("Start_Changes") \/ HasFile("End_Changes")) =>
          (InStages("compare_start") /\ InStages("compare_end"))
    /\ HasFile("End_Changes") => HasFile("Start_Changes")

\* a completed run in which a Report A row and a Report B record of the
\* same student were compared and both diffs are empty
C12_Witness ==
    /\ C12_Completed
    /\ Len(ed_data) > 0 /\ Len(cf_data) > 0
    /\ heap[ed_data[1]][1] = heap[cf_data[1]][1]
    /\ start_change = << >>
    /\ end_change = << >>
    /\ HasFile("Start_Changes") /\ HasFile("End_Changes")

-----------------------------------------------------------------------------
(* C13 *)

\* the fields of a record from number n on, with ',' between neighbours
RECURSIVE C13_Joined(_, _)
C13_Joined(item, n) ==
    IF n > Len(item) THEN << >>
    ELSE IF n = Len(item) THEN item[n]
    ELSE item[n] \o << "," >> \o C13_Joined(item, n + 1)

\* the lines of a text from position n on: the stretches that end at a
\* newline, and the rest after the last newline when it is not empty
RECURSIVE C13_Lines(_, _, _)
C13_Lines(text, n, line) ==
    IF n > Len(text) THEN (IF line = << >> THEN << >> ELSE << line >>)
    ELSE IF text[n] = "\n" THEN << line >> \o C13_Lines(text, n + 1, << >>)
    ELSE C13_Lines(text, n + 1, Append(line, text[n]))

\* C13: the written file's first line is the header, followed by exactly one
\* line per Change Record in list order, each line the record's fields joined
\* by ',' with no comma after the last field; an empty list gives a file of
\* the header line only.
C13_HeaderThenOneLinePerRecord ==
    upc = "returned" =>
        LET lines == C13_Lines(ret, 1, << >>)
        IN  /\ Len(lines) = 1 + Len(arg.i_data)
            /\ lines[1] = arg.headings
            /\ \A n \in 1 .. Len(arg.i_data) :
                 lines[n + 1] = C13_Joined(arg.i_data[n], 1)
            /\ ret[Len(ret)] = "\n"
            /\ (arg.i_data = << >> => ret = arg.headings \o << "\n" >>)

\* a file written from two different Change Records
C13_Witness ==
    /\ upc = "returned"
    /\ arg.headings = StartHeadings
    /\ Len(arg.i_data) = 2
    /\ arg.i_data[1] = << << "a" >>, << "1", "/", "2" >> >>
    /\ arg.i_data[2] = << << "1", "/", "2" >>, << "a" >> >>
    /\ C13_Lines(ret, 1, << >>) =
         << StartHeadings, << "a", ",", "1", "/", "2" >>,
            << "1", "/", "2", ",", "a" >> >>

=============================================================================
